---------------------------- MODULE Spec2Model ----------------------------
(***************************************************************************)
(* Show-Sphere, static/js/main.js: the page-load handler that schedules    *)
(* the auto-dismissal of every alert and creates a tooltip for every       *)
(* tooltip trigger, and formatCurrency.                                    *)
(*                                                                         *)
(* A JavaScript string is a sequence of characters, each a one-character   *)
(* string, so that parseFloat can scan it; the string formatCurrency       *)
(* returns is a string.  A JavaScript number is a binary64 value, held     *)
(* exactly: parseFloat rounds the decimal literal to the nearest binary64  *)
(* value, toFixed rounds the exact value, and Number::toString writes the  *)
(* shortest digits that denote it.                                         *)
(***************************************************************************)
EXTENDS Integers, Sequences, FiniteSets

(***************************************************************************)
(* Bounds of the model.                                                    *)
(***************************************************************************)
MaxLen == 4

MaxElems == 2

MaxTime == 5000

TickMs == 2500

MaxLog == 2

(***************************************************************************)
(* The state: the page, the script's timers and tooltips, and the calls    *)
(* of formatCurrency.                                                      *)
(***************************************************************************)
VARIABLES
    nCreated,            \* the elements 1..nCreated have been created
    markup,              \* markup[e]: the selectors element e matches
    doc,                 \* the elements attached to the document, in order
    loaded,              \* DOMContentLoaded has been dispatched
    now,                 \* the clock, in ms
    timers,              \* the timers of setTimeout, in the order of the calls
    fired,               \* fired[e]: the runs of the callback that closes e
    removedBy,           \* removedBy[e]: what detached e: "timer" or "script"
    tooltipTriggerList,  \* the handler's tooltipTriggerList
    tooltipList,         \* the handler's tooltipList
    errors,              \* the exceptions no handler caught
    docAtLoad,           \* history: doc when DOMContentLoaded was dispatched
    loadedAt,            \* history: now when DOMContentLoaded was dispatched
    log,                 \* the entries of the log that methods of the caller write
    lastAmount,          \* the argument of the last call of formatCurrency
    lastText,            \* the completion of its conversion to a string
    lastResult,          \* its completion
    returned             \* history: argument, completion and effect of every call,
                         \* and whether the page had loaded

pageVars == <<nCreated, markup, doc, loaded, now, timers, fired, removedBy,
              tooltipTriggerList, tooltipList, errors, docAtLoad, loadedAt>>

callVars == <<log, lastAmount, lastText, lastResult, returned>>

vars == <<pageVars, callVars>>

(***************************************************************************)
(* Characters and small arithmetic.  A character that TLA+ cannot write    *)
(* in a string is named by its code point ("U+00A0").                      *)
(***************************************************************************)
DecimalDigit == {"0", "1", "2", "3", "4", "5", "6", "7", "8", "9"}

\* WhiteSpace of ECMAScript: TAB, VT, FF, ZWNBSP and the category Zs.
WhiteSpace ==
    {"\t", "U+000B", "\f", "U+FEFF", " ", "U+00A0", "U+1680", "U+2000",
     "U+2001", "U+2002", "U+2003", "U+2004", "U+2005", "U+2006", "U+2007",
     "U+2008", "U+2009", "U+200A", "U+202F", "U+205F", "U+3000"}

\* LineTerminator of ECMAScript: LF, CR, LS, PS.
LineTerminator == {"\n", "\r", "U+2028", "U+2029"}

\* What TrimString removes.
StrWhiteSpaceChar == WhiteSpace \cup LineTerminator

DigitValue(c) ==
    CASE c = "0" -> 0 [] c = "1" -> 1 [] c = "2" -> 2 [] c = "3" -> 3
      [] c = "4" -> 4 [] c = "5" -> 5 [] c = "6" -> 6 [] c = "7" -> 7
      [] c = "8" -> 8 [] c = "9" -> 9

DigitChar(d) ==
    CASE d = 0 -> "0" [] d = 1 -> "1" [] d = 2 -> "2" [] d = 3 -> "3"
      [] d = 4 -> "4" [] d = 5 -> "5" [] d = 6 -> "6" [] d = 7 -> "7"
      [] d = 8 -> "8" [] d = 9 -> "9"

Max(x, y) == IF x >= y THEN x ELSE y

Min(x, y) == IF x <= y THEN x ELSE y

\* The sequence f[1], ..., f[n] of a function on 1..n, computed once.
Tuple(f, n) == SubSeq(f, 1, n)

RECURSIVE IntToChars(_)
IntToChars(n) ==
    IF n < 10 THEN <<DigitChar(n)>>
    ELSE Append(IntToChars(n \div 10), DigitChar(n % 10))

Zeros(k) == Tuple([i \in 1..k |-> "0"], k)

RECURSIVE Join(_)
Join(cs) ==
    IF Len(cs) = 0 THEN ""
    ELSE IF Len(cs) = 1 THEN cs[1]
    ELSE LET h == Len(cs) \div 2
         IN  Join(SubSeq(cs, 1, h)) \o Join(SubSeq(cs, h + 1, Len(cs)))

(***************************************************************************)
(* Natural numbers of any size: the sequence of the digits in base 1000,   *)
(* the least significant first, without leading zeros (zero is <<>>).      *)
(* Sums and products are formed digit by digit and the carries settled     *)
(* afterwards, without recursion over the digits.                          *)
(***************************************************************************)
Base == 1000

Ten(r) == CASE r = 0 -> 1 [] r = 1 -> 10 [] r = 2 -> 100 [] r = 3 -> 1000

Limb(a, i) == IF i >= 1 /\ i <= Len(a) THEN a[i] ELSE 0

Trim(a) ==
    IF a = <<>> THEN <<>>
    ELSE IF a[Len(a)] # 0 THEN a
    ELSE IF \A i \in 1..Len(a) : a[i] = 0 THEN <<>>
    ELSE LET n == CHOOSE i \in 1..Len(a) :
                     a[i] # 0 /\ \A j \in (i + 1)..Len(a) : a[j] = 0
         IN  SubSeq(a, 1, n)

FromInt(n) ==
    Trim(<<n % 1000, (n \div 1000) % 1000, (n \div 1000000) % 1000,
           n \div 1000000000>>)

\* One round of carries: every digit keeps its part below the base and
\* receives what the digit under it passes on.
Round(v) ==
    Tuple([i \in 1..(Len(v) + 1) |->
             (Limb(v, i) % Base) + (Limb(v, i - 1) \div Base)], Len(v) + 1)

\* With digits of at most 2 * Base - 2 a carry is 0 or 1: digit i receives
\* one when a digit under it overflows and all between them are Base - 1.
CarryIn(v, i) ==
    \E j \in 1..(i - 1) :
       v[i - j] >= Base /\ \A k \in 1..(j - 1) : v[i - k] = Base - 1

Settle(v) ==
    IF \A i \in 1..Len(v) : v[i] < Base THEN v
    ELSE Tuple([i \in 1..(Len(v) + 1) |->
                  (Limb(v, i) + (IF CarryIn(v, i) THEN 1 ELSE 0)) % Base],
               Len(v) + 1)

\* Digits below 2^31: three rounds bring them to at most Base.
Normalize(v) == Trim(Settle(Round(Round(Round(v)))))

Add(a, b) ==
    LET n == Max(Len(a), Len(b))
    IN  Trim(Settle(Tuple([i \in 1..n |-> Limb(a, i) + Limb(b, i)], n)))

\* a[i] * b[k + 1 - i] for i up to hi.
Term(a, b, k, i, hi) == IF i <= hi THEN a[i] * b[k + 1 - i] ELSE 0

\* The sum of a[i] * b[k + 1 - i] for i in lo..hi: of eight terms, or of
\* the sums over eight parts of lo..hi.
RECURSIVE Conv(_, _, _, _, _)
Conv(a, b, k, lo, hi) ==
    IF hi - lo < 8
    THEN ((Term(a, b, k, lo, hi) + Term(a, b, k, lo + 1, hi))
            + (Term(a, b, k, lo + 2, hi) + Term(a, b, k, lo + 3, hi)))
           + ((Term(a, b, k, lo + 4, hi) + Term(a, b, k, lo + 5, hi))
                + (Term(a, b, k, lo + 6, hi) + Term(a, b, k, lo + 7, hi)))
    ELSE LET w == (hi - lo + 8) \div 8
         IN  ((Conv(a, b, k, lo, Min(hi, lo + w - 1))
                 + Conv(a, b, k, lo + w, Min(hi, lo + (2 * w) - 1)))
                + (Conv(a, b, k, lo + (2 * w), Min(hi, lo + (3 * w) - 1))
                     + Conv(a, b, k, lo + (3 * w), Min(hi, lo + (4 * w) - 1))))
               + ((Conv(a, b, k, lo + (4 * w), Min(hi, lo + (5 * w) - 1))
                     + Conv(a, b, k, lo + (5 * w), Min(hi, lo + (6 * w) - 1)))
                    + (Conv(a, b, k, lo + (6 * w), Min(hi, lo + (7 * w) - 1))
                         + Conv(a, b, k, lo + (7 * w), hi)))

Mul(a, b) ==
    IF a = <<>> \/ b = <<>> THEN <<>>
    ELSE LET la == Len(a)
             lb == Len(b)
         IN  Normalize(Tuple([k \in 1..(la + lb - 1) |->
                                Conv(a, b, k, Max(1, k + 1 - lb), Min(la, k))],
                             la + lb - 1))

Square(a) == Mul(a, a)

\* b^r for b up to 9 and r up to 3.
Small(b, r) ==
    CASE r = 0 -> <<1>> [] r = 1 -> <<b>> [] r = 2 -> <<b * b>>
      [] r = 3 -> <<b * b * b>>

\* b^n for a digit b, by squaring twice: h is b^(n \div 4).
RECURSIVE Pow(_, _)
PowOf(h, b, n) ==
    IF h = <<1>> THEN Small(b, n % 4)
    ELSE Mul(Square(Square(h)), Small(b, n % 4))

Pow(b, n) == IF n = 0 THEN <<1>> ELSE PowOf(Pow(b, n \div 4), b, n)

\* -1, 0, 1 as a is below, equal to, above b.
Compare(a, b) ==
    IF Len(a) # Len(b) THEN (IF Len(a) < Len(b) THEN -1 ELSE 1)
    ELSE IF a = b THEN 0
    ELSE LET i == CHOOSE i \in 1..Len(a) :
                     a[i] # b[i] /\ \A j \in (i + 1)..Len(a) : a[j] = b[j]
         IN  IF a[i] < b[i] THEN -1 ELSE 1

\* The number of decimal digits of a (0 for zero).
NumDigits(a) ==
    IF a = <<>> THEN 0
    ELSE 3 * (Len(a) - 1)
           + (IF a[Len(a)] >= 100 THEN 3 ELSE IF a[Len(a)] >= 10 THEN 2 ELSE 1)

\* The decimal digit of weight 10^p.
Digit(a, p) == (Limb(a, (p \div 3) + 1) \div Ten(p % 3)) % 10

\* a * 10^j.
ShiftLeft10(a, j) ==
    LET s == j \div 3
        r == j % 3
        n == Len(a) + s + 1
    IN  Trim(Tuple([i \in 1..n |->
                      ((Limb(a, i - s) % Ten(3 - r)) * Ten(r))
                        + (Limb(a, i - s - 1) \div Ten(3 - r))], n))

\* The integer part of a / 10^j.
ShiftRight10(a, j) ==
    LET s == j \div 3
        r == j % 3
        n == Max(Len(a) - s, 0)
    IN  Trim(Tuple([i \in 1..n |->
                      (Limb(a, i + s) \div Ten(r))
                        + ((Limb(a, i + s + 1) % Ten(r)) * Ten(3 - r))], n))

\* The remainder of a / 10^j.
Mod10(a, j) ==
    LET s == j \div 3
        r == j % 3
        n == Min(Len(a), s + 1)
    IN  Trim(Tuple([i \in 1..n |->
                      IF i <= s THEN a[i] ELSE a[i] % Ten(r)], n))

\* The number written by the decimal digits ds, and the digits of a.
FromDigits(ds) ==
    LET n == Len(ds)
        d(p) == IF p < n THEN DigitValue(ds[n - p]) ELSE 0
        l == (n + 2) \div 3
    IN  Trim(Tuple([i \in 1..l |->
                      d(3 * i - 3) + (10 * d(3 * i - 2)) + (100 * d(3 * i - 1))],
                   l))

ToDigits(a) ==
    IF a = <<>> THEN <<"0">>
    ELSE LET n == NumDigits(a)
         IN  Tuple([p \in 1..n |-> DigitChar(Digit(a, n - p))], n)

(***************************************************************************)
(* A Number is NaN, an infinity, or the finite binary64 value              *)
(* (-1)^neg * f * 2^q, where f is a natural number below 2^53 and          *)
(* -1074 <= q <= 971, with 2^52 <= f unless q = -1074; the zeros have      *)
(* f = 0 and q = 0.                                                        *)
(***************************************************************************)
NaN == [kind |-> "nan"]

Infinity(neg) == [kind |-> "inf", neg |-> neg]

Finite(neg, f, q) == [kind |-> "fin", neg |-> neg, f |-> f, q |-> q]

Zero(neg) == Finite(neg, <<>>, 0)

TwoTo52 == <<496, 370, 627, 599, 503, 4>>

TwoTo53 == <<992, 740, 254, 199, 7, 9>>

MinExponent == -1074

MaxExponent == 971

(***************************************************************************)
(* The Number value of the mathematical value D * 10^E: the binary64       *)
(* value nearest to it, the one with the even significand when two are     *)
(* as near; an infinity from 2^1024 - 2^970 on.                            *)
(***************************************************************************)
\* P / 10^j rounded to an integer, halves to the even one; F0 is the
\* integer part of P / 10^j.
HalfEven(F0, P, j) ==
    LET d == Digit(P, j - 1)
        up == \/ d > 5
              \/ d = 5 /\ (Mod10(P, j - 1) # <<>> \/ Limb(F0, 1) % 2 = 1)
    IN  Add(F0, IF up THEN <<1>> ELSE <<>>)

\* P * 10^X rounded to an integer.
Shift10(P, X) ==
    IF P = <<>> THEN <<>>
    ELSE IF X >= 0 THEN ShiftLeft10(P, X)
    ELSE HalfEven(ShiftRight10(P, -X), P, -X)

\* D * 10^E / 2^q rounded to an integer: D * 5^q * 10^(E - q) when
\* q >= 0, D * 2^(-q) * 10^E otherwise.
Scaled(D, E, q) ==
    Shift10(Mul(D, Pow(IF q >= 0 THEN 5 ELSE 2, IF q >= 0 THEN q ELSE -q)),
            IF q >= 0 THEN E - q ELSE E)

\* The exponent q for which the significand F = Scaled(D, E, q) has 53
\* bits, from q near it.
RECURSIVE Fit(_, _, _)
FitOf(F, D, E, q) ==
    IF Compare(F, TwoTo53) >= 0 THEN Fit(D, E, q + 1)
    ELSE IF Compare(F, TwoTo52) < 0 /\ q > MinExponent THEN Fit(D, E, q - 1)
    ELSE [f |-> F, q |-> q]

Fit(D, E, q) == FitOf(Scaled(D, E, q), D, E, q)

\* The Number with significand r.f and exponent r.q.
Pack(neg, r) ==
    IF r.q > MaxExponent THEN Infinity(neg)
    ELSE IF r.f = <<>> THEN Zero(neg)
    ELSE Finite(neg, r.f, r.q)

\* An exponent b with 2^b <= D * 10^E or little under it, from the
\* number of digits and the first three.
Estimate(D, E) ==
    LET nd == NumDigits(D)
        top == (100 * Digit(D, nd - 1)) + (10 * Digit(D, nd - 2)) + Digit(D, nd - 3)
    IN  (((nd + E - 1) * 332192) \div 100000)
          + (IF top >= 800 THEN 3 ELSE IF top >= 400 THEN 2
             ELSE IF top >= 200 THEN 1 ELSE 0)

RoundMV(neg, D, E) ==
    IF D = <<>> THEN Zero(neg)
    ELSE IF NumDigits(D) + E > 310 THEN Infinity(neg)
    ELSE IF NumDigits(D) + E < -325 THEN Zero(neg)
    ELSE Pack(neg, Fit(D, E, Max(Estimate(D, E) - 52, MinExponent)))
(***************************************************************************)
(* Completion of a call: a returned value or a thrown exception.           *)
(***************************************************************************)
Normal(v) == [type |-> "normal", value |-> v]

Throw(name) == [type |-> "throw", value |-> name]

(***************************************************************************)
(* Number::toString(x), radix 10, as a sequence of characters: the         *)
(* fewest digits s for which s * 10^(n - k) has the Number value x, of     *)
(* those the nearest to x, and the even one when two are as near.          *)
(***************************************************************************)
InfinityChars == <<"I", "n", "f", "i", "n", "i", "t", "y">>

\* x.f * 2^x.q = W * 10^exp with W = 4 * x.f * S, where S is 2^(x.q - 2)
\* or 5^(2 - x.q); the values that round to x are those from below * 10^exp
\* under it to above * 10^exp over it, the ends included when x.f is even.
ExactOf(x, S) ==
    [W |-> Mul(Mul(x.f, <<4>>), S),
     exp |-> IF x.q >= 2 THEN 0 ELSE x.q - 2,
     below |-> Mul(S, IF x.f = TwoTo52 /\ x.q > MinExponent THEN <<1>> ELSE <<2>>),
     above |-> Mul(S, <<2>>),
     closed |-> Limb(x.f, 1) % 2 = 0]

Exact(x) ==
    ExactOf(x, Pow(IF x.q >= 2 THEN 2 ELSE 5,
                   IF x.q >= 2 THEN x.q - 2 ELSE 2 - x.q))

\* c compares a distance with the distance to the end of the interval.
Within(c, closed) == c < 0 \/ (c = 0 /\ closed)

\* W cut after n digits, or the next number of n digits, rounds to x.
DownRounds(v, n) ==
    Within(Compare(Mod10(v.W, NumDigits(v.W) - n), v.below), v.closed)

UpRounds(v, n) ==
    Within(Compare(ShiftLeft10(<<1>>, NumDigits(v.W) - n),
                   Add(Mod10(v.W, NumDigits(v.W) - n), v.above)),
           v.closed)

RECURSIVE FewestDigits(_, _)
FewestDigits(v, n) ==
    IF n >= NumDigits(v.W) \/ DownRounds(v, n) \/ UpRounds(v, n) THEN n
    ELSE FewestDigits(v, n + 1)

\* The number of k digits that rounds to x and is nearest to it: t is W
\* cut after k digits, r what was cut, c compares r with half a unit of t.
Nearest(v, k, t, r, c) ==
    Add(t, IF /\ r # <<>>
              /\ UpRounds(v, k)
              /\ (~DownRounds(v, k) \/ c > 0 \/ (c = 0 /\ Limb(t, 1) % 2 = 1))
           THEN <<1>> ELSE <<>>)

Cut(v, k, j) ==
    Nearest(v, k, ShiftRight10(v.W, j), Mod10(v.W, j),
            Compare(Mul(Mod10(v.W, j), <<2>>), ShiftLeft10(<<1>>, j)))

\* The digits s without the zeros at their end.
Significant(s) ==
    SubSeq(s, 1, CHOOSE i \in 1..Len(s) :
                    s[i] # "0" /\ \A m \in (i + 1)..Len(s) : s[m] = "0")

\* [digits, n]: the digits of s without trailing zeros, and n with
\* 10^(n - 1) <= x < 10^n for the chosen s = digits * 10^e.
DigitsAndPoint(s, e) == [digits |-> Significant(s), n |-> Len(s) + e]

ShortestOf(v, k) ==
    IF k >= NumDigits(v.W) THEN DigitsAndPoint(ToDigits(v.W), v.exp)
    ELSE DigitsAndPoint(ToDigits(Cut(v, k, NumDigits(v.W) - k)),
                        NumDigits(v.W) - k + v.exp)

ShortestIn(v) == ShortestOf(v, FewestDigits(v, 1))

ShortestDigits(x) == ShortestIn(Exact(x))

\* The digits ds with the point after n of them, or with an exponent.
Notation(sd) ==
    LET ds == sd.digits
        k == Len(ds)
        n == sd.n
        ex == n - 1
        es == (IF ex < 0 THEN <<"-">> ELSE <<"+">>)
                  \o IntToChars(IF ex < 0 THEN -ex ELSE ex)
    IN  IF k <= n /\ n <= 21 THEN ds \o Zeros(n - k)
        ELSE IF 0 < n /\ n <= 21
        THEN SubSeq(ds, 1, n) \o <<".">> \o SubSeq(ds, n + 1, k)
        ELSE IF -6 < n /\ n <= 0 THEN <<"0", ".">> \o Zeros(-n) \o ds
        ELSE IF k = 1 THEN ds \o <<"e">> \o es
        ELSE <<ds[1], ".">> \o SubSeq(ds, 2, k) \o <<"e">> \o es

NumberToString(x) ==
    IF x.kind = "nan" THEN <<"N", "a", "N">>
    ELSE IF x.kind = "inf"
    THEN (IF x.neg THEN <<"-">> ELSE <<>>) \o InfinityChars
    ELSE IF x.f = <<>> THEN <<"0">>
    ELSE (IF x.neg THEN <<"-">> ELSE <<>>) \o Notation(ShortestDigits(x))
(***************************************************************************)
(* The values an argument can be.  An object is what the conversion to a   *)
(* primitive value sees of it: its methods @@toPrimitive, toString and     *)
(* valueOf, which are code of the caller.  A method is absent, returns a   *)
(* value, throws, or writes to the caller's log before it returns.         *)
(***************************************************************************)
String(chars) == [type |-> "string", chars |-> chars]

Number(value) == [type |-> "number", value |-> value]

Undefined == [type |-> "undefined"]

Null == [type |-> "null"]

Boolean(b) == [type |-> "boolean", bool |-> b]

BigInt(neg, magnitude) == [type |-> "bigint", neg |-> neg, magnitude |-> magnitude]

Symbol(description) == [type |-> "symbol", description |-> description]

Object(toPrimitive, toString, valueOf) ==
    [type |-> "object", toPrimitive |-> toPrimitive, toString |-> toString,
     valueOf |-> valueOf]

Absent == [does |-> "absent"]

Returns(v) == [does |-> "return", value |-> v]

Throws(name) == [does |-> "throw", name |-> name]

\* function () { log.push(1); return v }
Pushes(v) == [does |-> "push", value |-> v]

\* function () { return String(log.push(1) - 1) }
Counts == [does |-> "count"]

\* The call of method m when the log has l entries: its completion and
\* the entries of the log after it.
Invoke(m, l) ==
    CASE m.does = "return" -> [completion |-> Normal(m.value), log |-> l]
      [] m.does = "throw" -> [completion |-> Throw(m.name), log |-> l]
      [] m.does = "push" -> [completion |-> Normal(m.value), log |-> l + 1]
      [] m.does = "count" ->
           [completion |-> Normal(String(IntToChars(l))), log |-> l + 1]

(***************************************************************************)
(* ToPrimitive(input, string): @@toPrimitive when the object has one,      *)
(* else toString and then valueOf, the first that returns a value that     *)
(* is not an object; a TypeError when none does.                           *)
(***************************************************************************)
OrdinaryToPrimitive(O, l) ==
    LET r1 == Invoke(O.toString, l)
        first == O.toString.does # "absent"
        l1 == IF first THEN r1.log ELSE l
        r2 == Invoke(O.valueOf, l1)
    IN  IF first /\ (r1.completion.type = "throw"
                       \/ r1.completion.value.type # "object") THEN r1
        ELSE IF O.valueOf.does = "absent"
        THEN [completion |-> Throw("TypeError"), log |-> l1]
        ELSE IF r2.completion.type = "throw"
                  \/ r2.completion.value.type # "object" THEN r2
        ELSE [completion |-> Throw("TypeError"), log |-> r2.log]

ToPrimitive(input, l) ==
    LET r == Invoke(input.toPrimitive, l)
    IN  IF input.toPrimitive.does = "absent" THEN OrdinaryToPrimitive(input, l)
        ELSE IF r.completion.type = "normal" /\ r.completion.value.type = "object"
        THEN [completion |-> Throw("TypeError"), log |-> r.log]
        ELSE r

(***************************************************************************)
(* ToString(argument), the first step of parseFloat: the characters, or    *)
(* the exception, and the caller's log after the conversion.               *)
(***************************************************************************)
PrimitiveToString(v) ==
    CASE v.type = "string" -> Normal(v.chars)
      [] v.type = "number" -> Normal(NumberToString(v.value))
      [] v.type = "undefined" ->
           Normal(<<"u", "n", "d", "e", "f", "i", "n", "e", "d">>)
      [] v.type = "null" -> Normal(<<"n", "u", "l", "l">>)
      [] v.type = "boolean" ->
           Normal(IF v.bool THEN <<"t", "r", "u", "e">>
                  ELSE <<"f", "a", "l", "s", "e">>)
      [] v.type = "bigint" ->
           Normal((IF v.neg /\ v.magnitude # <<>> THEN <<"-">> ELSE <<>>)
                    \o ToDigits(v.magnitude))
      [] v.type = "symbol" -> Throw("TypeError")

\* The string of the primitive value p completed with, if it did.
StringOf(p) ==
    IF p.completion.type = "throw" THEN p
    ELSE [completion |-> PrimitiveToString(p.completion.value), log |-> p.log]

ArgumentToString(argument) ==
    StringOf(IF argument.type = "object" THEN ToPrimitive(argument, log)
             ELSE [completion |-> Normal(argument), log |-> log])

(***************************************************************************)
(* The scanner of parseFloat: the longest prefix of the trimmed string     *)
(* that is a StrDecimalLiteral, and its Number value.                      *)
(***************************************************************************)
\* The first index from i on that holds no character of set.
SkipAll(s, i, set) ==
    CHOOSE j \in i..(Len(s) + 1) :
       /\ j = Len(s) + 1 \/ s[j] \notin set
       /\ \A k \in i..(j - 1) : s[k] \in set

SkipWhiteSpace(s, i) == SkipAll(s, i, StrWhiteSpaceChar)

DigitsEnd(s, i) == SkipAll(s, i, DecimalDigit)

\* The exponent written by the digits ds, a natural number of any size.
ExponentValue(ds) == FromDigits(ds)

StartsWith(s, i, w) ==
    /\ i + Len(w) - 1 <= Len(s)
    /\ \A n \in 1..Len(w) : s[i + n - 1] = w[n]

\* The exponent of a literal that has no ExponentPart.
NoExponent == [neg |-> FALSE, n |-> <<>>]

\* The ExponentPart at index b of s, when there is one: e or E, a sign
\* that ends before g, digits that end before h.  Without digits there
\* is no ExponentPart.
ExponentDigits(s, b, g, h) ==
    IF h = g THEN NoExponent
    ELSE [neg |-> s[b + 1] = "-", n |-> ExponentValue(SubSeq(s, g, h - 1))]

ExponentSigned(s, b, g) ==
    ExponentDigits(s, b, g, DigitsEnd(s, Min(g, Len(s) + 1)))

ExponentAt(s, b) ==
    IF b <= Len(s) /\ s[b] \in {"e", "E"}
    THEN ExponentSigned(s, b, IF b + 1 <= Len(s) /\ s[b + 1] \in {"+", "-"}
                              THEN b + 2 ELSE b + 1)
    ELSE NoExponent

\* The digits of s from u to a - 1 and, after a point at a, on to b - 1;
\* point is the number of digits after the point.
Mantissa(s, neg, u, a, b) ==
    IF (a - u) + (IF b > a THEN b - (a + 1) ELSE 0) = 0 THEN [is |-> "none"]
    ELSE [is |-> "decimal", neg |-> neg,
          digits |-> SubSeq(s, u, a - 1) \o SubSeq(s, a + 1, b - 1),
          point |-> IF b > a THEN b - (a + 1) ELSE 0,
          exponent |-> ExponentAt(s, b)]

IntegerPart(s, neg, u, a) ==
    Mantissa(s, neg, u, a,
             IF a <= Len(s) /\ s[a] = "." THEN DigitsEnd(s, a + 1) ELSE a)

Unsigned(s, neg, u) ==
    IF StartsWith(s, u, InfinityChars) THEN [is |-> "infinity", neg |-> neg]
    ELSE IntegerPart(s, neg, u, DigitsEnd(s, Min(u, Len(s) + 1)))

Signed(s, t) ==
    Unsigned(s, t <= Len(s) /\ s[t] = "-",
             IF t <= Len(s) /\ s[t] \in {"+", "-"} THEN t + 1 ELSE t)

\* The literal at the start of s: none, Infinity, or the digits of the
\* mantissa, the number of them after the point, and the exponent written.
Literal(s) == Signed(s, SkipWhiteSpace(s, 1))

\* x + k > b and x + k < b, for a written exponent x and integers k and b.
SumAbove(x, k, b) ==
    IF x.neg THEN k - b > 0 /\ Compare(x.n, FromInt(k - b)) < 0
    ELSE b - k < 0 \/ Compare(x.n, FromInt(b - k)) > 0

SumBelow(x, k, b) ==
    IF x.neg THEN k - b < 0 \/ Compare(x.n, FromInt(k - b)) > 0
    ELSE b - k > 0 /\ Compare(x.n, FromInt(b - k)) < 0

\* The integer x, an exponent of fewer than ten digits.
ToInt(x) ==
    (IF x.neg THEN -1 ELSE 1)
        * (Limb(x.n, 1) + (1000 * Limb(x.n, 2)) + (1000000 * Limb(x.n, 3))
             + (1000000000 * Limb(x.n, 4)))

\* The Number value of D * 10^(x - point), D a natural number: a value of
\* 10^310 or more is an infinity, a value below 10^-326 a zero, whatever
\* the digits.
Decimal(neg, D, x, point) ==
    IF D = <<>> THEN Zero(neg)
    ELSE IF SumAbove(x, NumDigits(D) - point, 310) THEN Infinity(neg)
    ELSE IF SumBelow(x, NumDigits(D) - point, -325) THEN Zero(neg)
    ELSE RoundMV(neg, D, ToInt(x) - point)

\* The Number value of a literal.
MV(lit) ==
    CASE lit.is = "infinity" -> Infinity(lit.neg)
      [] lit.is = "none" -> NaN
      [] lit.is = "decimal" ->
           Decimal(lit.neg, FromDigits(lit.digits), lit.exponent, lit.point)

StringToNumber(s) == MV(Literal(s))

\* The Number of the string s completed with, if the conversion did.
NumberOf(s) ==
    IF s.completion.type = "throw" THEN s
    ELSE [completion |-> Normal(StringToNumber(s.completion.value)),
          log |-> s.log]

\* A parser that throws on a text that starts with no number (JSON.parse
\* for parseFloat).
NumberOrThrow(s) ==
    IF s.completion.type = "normal" /\ Literal(s.completion.value).is = "none"
    THEN [completion |-> Throw("SyntaxError"), log |-> s.log]
    ELSE NumberOf(s)

parseStrict(string) == NumberOrThrow(ArgumentToString(string))

parseFloat(string) == NumberOf(ArgumentToString(string))

(***************************************************************************)
(* Number.prototype.toFixed(fractionDigits): the digits of the integer n   *)
(* for which n / 10^f - x is as close to zero as possible, the larger n    *)
(* when there are two; Number::toString from 10^21 on.                     *)
(***************************************************************************)
\* P / 10^j rounded to an integer, halves upwards.
HalfUp(P, j) ==
    Add(ShiftRight10(P, j), IF Digit(P, j - 1) >= 5 THEN <<1>> ELSE <<>>)

\* The digits d, with zeros before them for f + 1 digits at least.
Padded(d, f) == IF Len(d) <= f THEN Zeros(f + 1 - Len(d)) \o d ELSE d

\* The digits m with a point before the last f.
Pointed(m, f) ==
    IF f = 0 THEN m
    ELSE SubSeq(m, 1, Len(m) - f) \o <<".">> \o SubSeq(m, Len(m) - f + 1, Len(m))

\* |x| = P when x.q >= 0, and P / 10^(-x.q) otherwise: the digits of
\* |x| * 10^f rounded to an integer, with the point.
FixedOf(x, f, P) ==
    IF Compare(P, ShiftLeft10(<<1>>, 21)) >= 0 /\ x.q >= 0
    THEN NumberToString([x EXCEPT !.neg = FALSE])
    ELSE Pointed(Padded(ToDigits(IF x.q >= 0 THEN ShiftLeft10(P, f)
                                 ELSE IF f + x.q >= 0
                                 THEN ShiftLeft10(P, f + x.q)
                                 ELSE HalfUp(P, -(f + x.q))), f), f)

toFixed(x, fractionDigits) ==
    IF fractionDigits < 0 \/ fractionDigits > 100 THEN Throw("RangeError")
    ELSE IF x.kind # "fin" THEN Normal(Join(NumberToString(x)))
    ELSE Normal(Join((IF x.neg /\ x.f # <<>> THEN <<"-">> ELSE <<>>)
                       \o FixedOf(x, fractionDigits,
                                  Mul(x.f, Pow(IF x.q >= 0 THEN 2 ELSE 5,
                                               IF x.q >= 0 THEN x.q ELSE -x.q)))))

(***************************************************************************)
(* formatCurrency(amount): the completion of the call and the caller's     *)
(* log after it.                                                           *)
(***************************************************************************)
\* '₹' + r, when r is a value.
Concatenated(r) == IF r.type = "throw" THEN r ELSE Normal("₹" \o r.value)

\* p.toFixed(2), when parseFloat completed with a value.
Fixed(p) ==
    IF p.completion.type = "throw" THEN p.completion
    ELSE toFixed(p.completion.value, 2)

Formatted(p) == [completion |-> Concatenated(Fixed(p)), log |-> p.log]

formatCurrency(amount) == Formatted(parseFloat(amount))
(***************************************************************************)
(* The page.  An element is a number; markup[e] is the set of the two      *)
(* selectors that element e matches; doc is the document in tree order.    *)
(***************************************************************************)
AlertSelector == ".alert"

TooltipSelector == "[data-bs-toggle=\"tooltip\"]"

Selectors == {AlertSelector, TooltipSelector}

Elements == 1..MaxElems

Delay == 5000

Range(s) == {s[i] : i \in 1..Len(s)}

Remove(d, el) == SelectSeq(d, LAMBDA x : x # el)

(***************************************************************************)
(* document.querySelectorAll(selector): the attached elements that match,  *)
(* in tree order, as they are at the call.                                 *)
(***************************************************************************)
querySelectorAll(d, mk, selector) == SelectSeq(d, LAMBDA x : selector \in mk[x])

(***************************************************************************)
(* setTimeout(callback, delay) at time t, the callback closing `alert`:    *)
(* one more timer, which runs once, not before t + delay.                  *)
(***************************************************************************)
setTimeout(ts, alert, delay, t) ==
    Append(ts, [alert |-> alert, due |-> t + delay, pending |-> TRUE])

RECURSIVE forEachAlert(_, _, _)
forEachAlert(ts, alerts, t) ==
    IF alerts = <<>> THEN ts
    ELSE forEachAlert(setTimeout(ts, Head(alerts), Delay, t), Tail(alerts), t)

\* A timer that runs again every delay (setInterval for setTimeout).
Rearm(timer) == [timer EXCEPT !.due = @ + 5000]

Expire(timer) == [timer EXCEPT !.pending = FALSE]

(***************************************************************************)
(* new bootstrap.Tooltip(tooltipTriggerEl) and the map over the triggers.  *)
(***************************************************************************)
Tooltip(tooltipTriggerEl) == [element |-> tooltipTriggerEl]

\* Every instance bound to the first trigger.
mapTooltipFirst(triggers) == [i \in 1..Len(triggers) |-> Tooltip(triggers[1])]

\* The instances in the reverse order of the triggers.
mapTooltipReversed(triggers) ==
    [i \in 1..Len(triggers) |-> Tooltip(triggers[Len(triggers) + 1 - i])]

mapTooltip(triggers) == [i \in 1..Len(triggers) |-> Tooltip(triggers[i])]

(***************************************************************************)
(* new bootstrap.Alert(alert).close().  The library is not among the       *)
(* sources; close() is what the specification says of the dismiss action:  *)
(* it removes the element from the page.  What the library does with an    *)
(* element whose dismissal the user has begun is not modelled.             *)
(***************************************************************************)
AlertClose(d, alert) == [doc |-> Remove(d, alert), completion |-> Normal("")]

\* A callback that closes every alert in the document when it runs.
DismissCallbackAll(d, mk, alert) ==
    [doc |-> SelectSeq(d, LAMBDA x : AlertSelector \notin mk[x]),
     completion |-> Normal("")]

\* A callback that closes the first alert in the document when it runs.
DismissCallbackFirst(d, mk, alert) ==
    LET alerts == querySelectorAll(d, mk, AlertSelector)
    IN  IF alerts = <<>> THEN [doc |-> d, completion |-> Normal("")]
        ELSE AlertClose(d, Head(alerts))

DismissCallback(d, mk, alert) == AlertClose(d, alert)

(***************************************************************************)
(* The arguments of formatCurrency.                                        *)
(***************************************************************************)
\* The Number a decimal literal m e-notation denotes, as in the source of
\* a caller.
Double(neg, m, e) == RoundMV(neg, FromInt(m), e)

Alphabet == {"0", "1", "5", ".", "-", "e", "a", " "}

Texts == UNION {[1..n -> Alphabet] : n \in 0..MaxLen}

NotableTexts ==
    { <<"4", "2">>, <<"a", "b", "c">>, <<"1", ".", "0", "0", "5">>,
      <<"9", ".", "9", "9", "9">>, <<"0", ".", "1", "2", "5">>,
      <<"-", "2", ".", "6", "7", "5">>, <<"1", "2", "p", "x">>,
      <<"\t", "+", "7", ".", "E", "2">>, <<"\f", "1">>, <<"U+00A0", "1">>,
      <<"U+000B", "U+2028", "U+3000", "U+FEFF", "\n", "1">>,
      <<"1", "e", "2", "1">>, <<"9", "9", "9", "9", "9", "e", "1", "6">>,
      <<"2", "e", "3", "0", "8">>, <<"-", "1", "e", "-", "3", "2", "4">>,
      <<"3", "e", "-", "3", "2", "4">>,
      <<"1", "2", "3", "4", "5", "6", "7", "8", "9", "1">>,
      <<"1", ".", "0", "0", "5", "0", "0", "0", "0", "0", "0", "0", "1">>,
      <<"1", "7", "9", "7", "6", "9", "3", "1", "3", "4", "9", "e", "2", "9", "8">>,
      InfinityChars, <<"-">> \o InfinityChars, <<"N", "a", "N">> }

Numbers ==
    {NaN, Infinity(FALSE), Infinity(TRUE), Double(FALSE, 3, -324),
     Double(TRUE, 99999, 16)}
        \cup {Double(neg, m, e) : neg \in BOOLEAN,
                                  m \in {0, 1, 5, 42, 1005, 9999, 8345, 125},
                                  e \in {-7, -3, -2, 0, 18, 21}}

\* {}, [5], Object.create(null), an object with a valueOf alone, and
\* objects whose toString is code of the caller.
PlainObject ==
    Object(Absent,
           Returns(String(<<"[", "o", "b", "j", "e", "c", "t", " ",
                            "O", "b", "j", "e", "c", "t", "]">>)),
           Returns([type |-> "object"]))

ArrayOfFive == Object(Absent, Returns(String(<<"5">>)), Returns([type |-> "object"]))

BareObject == Object(Absent, Absent, Absent)

ValueObject ==
    Object(Absent, Returns([type |-> "object"]), Returns(Number(Double(FALSE, 42, 0))))

ThrowingObject == Object(Absent, Throws("Error"), Absent)

LoggingObject == Object(Absent, Pushes(String(<<"7">>)), Absent)

CountingObject == Object(Absent, Counts, Absent)

PrimitiveObject == Object(Returns(Symbol("x")), Absent, Absent)

Objects ==
    {PlainObject, ArrayOfFive, BareObject, ValueObject, ThrowingObject,
     LoggingObject, CountingObject, PrimitiveObject}

Amounts ==
    {String(s) : s \in Texts \cup NotableTexts}
        \cup {Number(v) : v \in Numbers}
        \cup {Undefined, Null, Boolean(TRUE), Boolean(FALSE), Symbol("x"),
              BigInt(FALSE, FromInt(10)), BigInt(TRUE, FromInt(7))}
        \cup Objects

PageAmounts == {String(<<"a", "b", "c">>), Number(Zero(FALSE))}

NoResult == [type |-> "none", value |-> ""]

(***************************************************************************)
(* The initial state: an empty document being parsed, nothing scheduled.   *)
(***************************************************************************)
PageInit ==
    /\ nCreated = 0
    /\ markup = [e \in Elements |-> {}]
    /\ doc = <<>>
    /\ loaded = FALSE
    /\ now = 0
    /\ timers = <<>>
    /\ fired = [e \in Elements |-> 0]
    /\ removedBy = [e \in Elements |-> ""]
    /\ tooltipTriggerList = <<>>
    /\ tooltipList = <<>>
    /\ errors = <<>>
    /\ docAtLoad = <<>>
    /\ loadedAt = -1

Init ==
    /\ PageInit
    /\ log = 0
    /\ lastAmount = Undefined
    /\ lastText = NoResult
    /\ lastResult = NoResult
    /\ returned = {}

(***************************************************************************)
(* The page around the script: the parser or another script appends an     *)
(* element to the document or detaches one, time passes.  The clock stops  *)
(* at MaxTime unless a timer still waits for its time.                     *)
(***************************************************************************)
AddElement(mk) ==
    /\ nCreated < MaxElems
    /\ nCreated' = nCreated + 1
    /\ markup' = [markup EXCEPT ![nCreated + 1] = mk]
    /\ doc' = Append(doc, nCreated + 1)
    /\ UNCHANGED <<loaded, now, timers, fired, removedBy, tooltipTriggerList,
                   tooltipList, errors, docAtLoad, loadedAt, callVars>>

RemoveElement(el) ==
    /\ el \in Range(doc)
    /\ doc' = Remove(doc, el)
    /\ removedBy' = [removedBy EXCEPT ![el] = "script"]
    /\ UNCHANGED <<nCreated, markup, loaded, now, timers, fired,
                   tooltipTriggerList, tooltipList, errors, docAtLoad,
                   loadedAt, callVars>>

Tick ==
    /\ \/ now < MaxTime
       \/ \E i \in 1..Len(timers) : timers[i].pending /\ now < timers[i].due
    /\ now' = now + TickMs
    /\ UNCHANGED <<nCreated, markup, doc, loaded, timers, fired, removedBy,
                   tooltipTriggerList, tooltipList, errors, docAtLoad,
                   loadedAt, callVars>>

\* A listener that returns when it finds no alert.
DOMContentLoadedEarlyReturn ==
    /\ ~loaded
    /\ loaded' = TRUE
    /\ LET alerts == querySelectorAll(doc, markup, AlertSelector)
       IN  /\ timers' = forEachAlert(timers, alerts, now)
           /\ tooltipTriggerList' =
                 IF alerts = <<>> THEN <<>>
                 ELSE querySelectorAll(doc, markup, TooltipSelector)
    /\ tooltipList' = mapTooltip(tooltipTriggerList')
    /\ docAtLoad' = doc
    /\ loadedAt' = now
    /\ UNCHANGED <<nCreated, markup, doc, now, fired, removedBy, errors,
                   callVars>>

(***************************************************************************)
(* The listener of DOMContentLoaded, run once: a timer for every alert in  *)
(* the document, then a tooltip for every trigger in the document.         *)
(***************************************************************************)
DOMContentLoaded ==
    /\ ~loaded
    /\ loaded' = TRUE
    /\ LET alerts == querySelectorAll(doc, markup, AlertSelector)
       IN  timers' = forEachAlert(timers, alerts, now)
    /\ tooltipTriggerList' = querySelectorAll(doc, markup, TooltipSelector)
    /\ tooltipList' = mapTooltip(tooltipTriggerList')
    /\ docAtLoad' = doc
    /\ loadedAt' = now
    /\ UNCHANGED <<nCreated, markup, doc, now, fired, removedBy, errors,
                   callVars>>

(***************************************************************************)
(* The callback of timer i runs: it closes the alert it was created for.   *)
(***************************************************************************)
FireTimer(i) ==
    /\ i \in 1..Len(timers)
    /\ timers[i].pending
    /\ now >= timers[i].due
    /\ LET alert == timers[i].alert
           c == DismissCallback(doc, markup, alert)
       IN  /\ doc' = c.doc
           /\ removedBy' = [e \in Elements |->
                              IF e \in Range(doc) /\ e \notin Range(c.doc)
                              THEN "timer" ELSE removedBy[e]]
           /\ errors' = IF c.completion.type = "throw"
                        THEN Append(errors, c.completion.value) ELSE errors
           /\ fired' = [fired EXCEPT ![alert] = @ + 1]
    /\ timers' = [timers EXCEPT ![i] = Expire(@)]
    /\ UNCHANGED <<nCreated, markup, loaded, now, tooltipTriggerList,
                   tooltipList, docAtLoad, loadedAt, callVars>>

(***************************************************************************)
(* Some code of the page calls formatCurrency(a); the log of the caller    *)
(* holds at most MaxLog entries.                                           *)
(***************************************************************************)
\* A formatter that also creates the tooltips of the page at every call.
CompletesAndInitializes(a, text, r) ==
    /\ r.log <= MaxLog
    /\ tooltipList' = tooltipList
                         \o mapTooltip(querySelectorAll(doc, markup, TooltipSelector))
    /\ UNCHANGED <<nCreated, markup, doc, loaded, now, timers, fired, removedBy,
                   tooltipTriggerList, errors, docAtLoad, loadedAt>>
    /\ log' = r.log
    /\ lastAmount' = a
    /\ lastText' = text
    /\ lastResult' = r.completion
    /\ returned' = returned \cup
          {[amount |-> a, completion |-> r.completion,
            pageChanged |-> pageVars' # pageVars, loaded |-> loaded]}

\* The call has converted a to text and completed with r.
Completes(a, text, r) ==
    /\ r.log <= MaxLog
    /\ UNCHANGED pageVars
    /\ log' = r.log
    /\ lastAmount' = a
    /\ lastText' = text
    /\ lastResult' = r.completion
    /\ returned' = returned \cup
          {[amount |-> a, completion |-> r.completion,
            pageChanged |-> pageVars' # pageVars, loaded |-> loaded]}

Call(a) == Completes(a, ArgumentToString(a).completion, formatCurrency(a))

PageNext ==
    \/ \E mk \in SUBSET Selectors : AddElement(mk)
    \/ \E el \in Elements : RemoveElement(el)
    \/ Tick
    \/ DOMContentLoaded
    \/ \E i \in 1..MaxElems : FireTimer(i)

Next ==
    \/ PageNext
    \/ \E a \in PageAmounts : Call(a)

Spec == Init /\ [][Next]_vars

(***************************************************************************)
(* The page alone: the steps of the page, the handler and the timers.      *)
(***************************************************************************)
PageSpec == Init /\ [][PageNext]_vars

(***************************************************************************)
(* The page alone, with the event loop running: time passes, and a timer   *)
(* that is due runs.                                                       *)
(***************************************************************************)
FairSpec ==
    /\ Init
    /\ [][PageNext]_vars
    /\ WF_vars(Tick)
    /\ \A i \in 1..MaxElems : WF_vars(FireTimer(i))

(***************************************************************************)
(* formatCurrency alone, on every amount of Amounts.                       *)
(***************************************************************************)
FormatInit ==
    /\ PageInit
    /\ log = 0
    /\ lastAmount \in Amounts
    /\ lastText = NoResult
    /\ lastResult = NoResult
    /\ returned = {}

FormatNext ==
    /\ lastResult = NoResult
    /\ Call(lastAmount)

FormatSpec == FormatInit /\ [][FormatNext]_vars

(***************************************************************************)
(* What the claims speak of.                                               *)
(***************************************************************************)
MatchedAlerts == {e \in Range(docAtLoad) : AlertSelector \in markup[e]}

MatchedTriggers == {e \in Range(docAtLoad) : TooltipSelector \in markup[e]}

TimersFor(e) == {i \in 1..Len(timers) : timers[i].alert = e}

InstancesFor(e) == {i \in 1..Len(tooltipList) : tooltipList[i].element = e}

Fires(i) ==
    /\ i \in 1..Len(timers)
    /\ timers[i].pending
    /\ fired'[timers[i].alert] = fired[timers[i].alert] + 1

TriggersInOrder == SelectSeq(docAtLoad, LAMBDA x : TooltipSelector \in markup[x])

TooltipsComplete ==
    /\ Len(tooltipList) = Len(TriggersInOrder)
    /\ \A i \in 1..Len(tooltipList) : tooltipList[i].element = TriggersInOrder[i]

\* The state part of C1: one timer each, run at most once, not before 5000 ms.
C1_OneTimerEach ==
    /\ ~loaded => timers = <<>>
    /\ loaded =>
         \A e \in Elements :
            /\ e \in MatchedAlerts => Cardinality(TimersFor(e)) = 1
            /\ \A i \in TimersFor(e) : timers[i].due = loadedAt + 5000
            /\ fired[e] <= 1
            /\ fired[e] = 1 => now >= loadedAt + 5000

(***************************************************************************)
(* C1.  Every element that matches the alert selector when the trigger     *)
(* fires has exactly one dismissal scheduled; the dismissal does not run   *)
(* before 5000 ms have passed since it was scheduled, never runs twice,    *)
(* and, the event loop running, does run: from some point on it has run    *)
(* exactly once.                                                           *)
(***************************************************************************)
C1_DismissedExactlyOnce ==
    /\ []C1_OneTimerEach
    /\ \A e \in Elements :
          (loaded /\ e \in MatchedAlerts) ~> [](fired[e] = 1)

C1_Witness ==
    /\ loaded
    /\ Cardinality(MatchedAlerts) = 2
    /\ \A e \in MatchedAlerts : fired[e] = 1

(***************************************************************************)
(* C2.  Every element that carries the tooltip marker when the trigger     *)
(* fires has exactly one tooltip instance, and an instance is bound to no  *)
(* other element: a trigger has neither zero nor two instances.            *)
(***************************************************************************)
C2_OneTooltipPerTrigger ==
    /\ ~loaded => tooltipList = <<>>
    /\ loaded =>
         \A e \in Elements :
            Cardinality(InstancesFor(e)) = IF e \in MatchedTriggers THEN 1 ELSE 0

C2_Witness ==
    /\ loaded
    /\ Cardinality(MatchedTriggers) = 2
    /\ Len(tooltipList) = 2

(***************************************************************************)
(* C3.  An element that was not in the document when the trigger fired     *)
(* (so every element added afterwards) has no dismissal scheduled, none    *)
(* run, is never removed by a dismissal, and has no tooltip instance.      *)
(***************************************************************************)
C3_LaterElementsUntouched ==
    \A e \in Elements :
       e \notin Range(docAtLoad) =>
          /\ TimersFor(e) = {}
          /\ fired[e] = 0
          /\ removedBy[e] # "timer"
          /\ InstancesFor(e) = {}

C3_Witness ==
    /\ loaded
    /\ \E e \in Range(doc) :
          /\ e \notin Range(docAtLoad)
          /\ markup[e] = Selectors
          /\ now >= loadedAt + 5000
    /\ \E x \in Elements : fired[x] = 1
    /\ tooltipList # <<>>

\* The two parts of C8: a step that runs a timer; two callbacks commute.
C8_Step ==
    \A i \in 1..Len(timers) :
       Fires(i) =>
          /\ doc' = Remove(doc, timers[i].alert)
          /\ Len(timers') = Len(timers)
          /\ \A j \in 1..Len(timers) : j # i => timers'[j] = timers[j]
          /\ \A e \in Elements : e # timers[i].alert => fired'[e] = fired[e]
          /\ tooltipList' = tooltipList
          /\ tooltipTriggerList' = tooltipTriggerList

C8_Commute ==
    \A i \in 1..Len(timers) : \A j \in 1..Len(timers) :
       (i # j /\ timers[i].pending /\ timers[j].pending) =>
          DismissCallback(DismissCallback(doc, markup, timers[i].alert).doc,
                          markup, timers[j].alert).doc
            = DismissCallback(DismissCallback(doc, markup, timers[j].alert).doc,
                              markup, timers[i].alert).doc

(***************************************************************************)
(* C8.  The dismissal of one alert removes that alert and nothing else,    *)
(* leaves every other timer pending with its time, and every tooltip       *)
(* instance as it is; and two dismissals that are due give the same        *)
(* document in either order.                                               *)
(***************************************************************************)
C8_IndependentDismissals == [][C8_Step]_vars /\ []C8_Commute

C8_Witness ==
    /\ Len(timers) = 2
    /\ timers[1].pending
    /\ ~timers[2].pending
    /\ timers[1].alert \in Range(doc)
    /\ tooltipList # <<>>

(***************************************************************************)
(* C9.  With no alert in the document at the trigger no timer is created,  *)
(* nothing is thrown and every trigger still gets its tooltip; with no     *)
(* trigger no tooltip instance is created, nothing is thrown and every     *)
(* alert still gets its timer.                                             *)
(***************************************************************************)
C9_EmptyMatchIsSuccess ==
    loaded =>
       /\ MatchedAlerts = {} =>
             timers = <<>> /\ errors = <<>> /\ TooltipsComplete
       /\ MatchedTriggers = {} =>
             /\ tooltipList = <<>>
             /\ errors = <<>>
             /\ \A e \in MatchedAlerts : Cardinality(TimersFor(e)) = 1

C9_Witness ==
    /\ loaded
    /\ MatchedAlerts = {}
    /\ Cardinality(MatchedTriggers) = 2
    /\ now >= loadedAt + 5000

(***************************************************************************)
(* C10.  When a dismissal has run, every trigger matched at the trigger    *)
(* has its tooltip instance, and the instances are in the order in which   *)
(* the triggers were matched: no dismissal removes an element that still   *)
(* waits for its tooltip.                                                  *)
(***************************************************************************)
C10_TooltipsBeforeDismissals ==
    (\E e \in Elements : fired[e] >= 1 \/ removedBy[e] = "timer")
        => TooltipsComplete

C10_Witness ==
    /\ \E e \in Elements : fired[e] = 1 /\ removedBy[e] = "timer"
                              /\ e \in MatchedTriggers
    /\ Len(tooltipList) = 2

\* The amounts of the formatter's interface: a number, or a text.
NumberOrText(a) == a.type \in {"number", "string"}

(***************************************************************************)
(* C6.  For an amount that is a number or a text, formatCurrency returns   *)
(* the same completion for the same argument whatever the state of the     *)
(* page at the call and whatever ran between the calls, and no call        *)
(* changes anything of the page: the document, the timers, the tooltips.   *)
(***************************************************************************)
C6_PureFormatter ==
    /\ \A c \in returned : \A d \in returned :
          (NumberOrText(c.amount) /\ c.amount = d.amount)
              => c.completion = d.completion
    /\ \A c \in returned : NumberOrText(c.amount) => ~c.pageChanged

C6_Witness ==
    /\ \E c \in returned : \E d \in returned :
          /\ NumberOrText(c.amount)
          /\ c.amount = d.amount
          /\ ~c.loaded
          /\ d.loaded
    /\ \E e \in Elements : removedBy[e] = "timer"
    /\ tooltipList # <<>>

(***************************************************************************)
(* The decimal numbers of the host's convention, stated by the grammar:    *)
(* an amount is parseable when its conversion to a string returns and the  *)
(* text, leading white space apart, starts with a StrDecimalLiteral.       *)
(***************************************************************************)
IsDigits(w) == w # <<>> /\ \A i \in 1..Len(w) : w[i] \in DecimalDigit

IsMantissa(w) ==
    \/ IsDigits(w)
    \/ \E d \in 1..Len(w) :
          /\ w[d] = "."
          /\ Len(w) >= 2
          /\ \A i \in 1..Len(w) : i # d => w[i] \in DecimalDigit

IsExponentPart(w) ==
    /\ Len(w) >= 2
    /\ w[1] \in {"e", "E"}
    /\ \/ IsDigits(Tail(w))
       \/ w[2] \in {"+", "-"} /\ IsDigits(Tail(Tail(w)))

IsUnsignedLiteral(w) ==
    \/ w = InfinityChars
    \/ \E k \in 1..Len(w) :
          /\ IsMantissa(SubSeq(w, 1, k))
          /\ k = Len(w) \/ IsExponentPart(SubSeq(w, k + 1, Len(w)))

IsStrDecimalLiteral(w) ==
    \/ IsUnsignedLiteral(w)
    \/ w # <<>> /\ w[1] \in {"+", "-"} /\ IsUnsignedLiteral(Tail(w))

Trimmed(s) ==
    IF \A i \in 1..Len(s) : s[i] \in StrWhiteSpaceChar THEN <<>>
    ELSE LET k == CHOOSE i \in 1..Len(s) :
                     /\ s[i] \notin StrWhiteSpaceChar
                     /\ \A j \in 1..(i - 1) : s[j] \in StrWhiteSpaceChar
         IN  SubSeq(s, k, Len(s))

\* t: the completion of the conversion of an amount to a string.
Parseable(t) ==
    /\ t.type = "normal"
    /\ \E n \in 1..Len(Trimmed(t.value)) :
          IsStrDecimalLiteral(SubSeq(Trimmed(t.value), 1, n))

(***************************************************************************)
(* The decimal value D * 10^E rounded at the second decimal place, halves  *)
(* away from zero, written with two digits after the point.                *)
(***************************************************************************)
HalfAwayHundredths(D, E) ==
    IF E + 2 >= 0 THEN ShiftLeft10(D, E + 2)
    ELSE IF Digit(D, -(E + 2) - 1) >= 5
    THEN Add(ShiftRight10(D, -(E + 2)), <<1>>)
    ELSE ShiftRight10(D, -(E + 2))

TwoDecimals(n) ==
    LET d == ToDigits(n)
        p == IF Len(d) <= 2 THEN Zeros(3 - Len(d)) \o d ELSE d
    IN  Join(SubSeq(p, 1, Len(p) - 2) \o <<".">> \o SubSeq(p, Len(p) - 1, Len(p)))

\* The hundredths of D * 10^(x - point): none when the value is below
\* 0.001.
Hundredths(D, x, point) ==
    IF D = <<>> \/ SumBelow(x, NumDigits(D) - point, -2) THEN <<>>
    ELSE HalfAwayHundredths(D, ToInt(x) - point)

\* The renderings of the value of a literal; a value of 10^400 or more,
\* greater than every Number, has none that formatCurrency can return.
RenderedOf(neg, D, x, point) ==
    IF D # <<>> /\ SumAbove(x, NumDigits(D) - point, 400) THEN {}
    ELSE IF ~neg THEN {"₹" \o TwoDecimals(Hundredths(D, x, point))}
    ELSE IF Hundredths(D, x, point) = <<>> THEN {"₹0.00", "₹-0.00"}
    ELSE {"₹-" \o TwoDecimals(Hundredths(D, x, point))}

HalfAwayRendered(lit) ==
    RenderedOf(lit.neg, FromDigits(lit.digits), lit.exponent, lit.point)

(***************************************************************************)
(* C4.  For every amount that is parseable as a decimal number, given as   *)
(* a number or as text, formatCurrency returns the glyph followed by the   *)
(* value with exactly two digits after the point, the decimal value        *)
(* rounded at the second decimal place with halves away from zero.         *)
(***************************************************************************)
C4_TwoDecimalsHalfAwayFromZero ==
    (/\ lastResult # NoResult
     /\ Parseable(lastText)
     /\ Literal(lastText.value).is = "decimal")
      => /\ lastResult.type = "normal"
         /\ lastResult.value \in HalfAwayRendered(Literal(lastText.value))

(***************************************************************************)
(* C5.  For every amount, a number or a text, that is not parseable as a   *)
(* decimal number formatCurrency throws nothing: it returns the glyph      *)
(* followed by the not-a-number sentinel, "NaN", which is no two-decimal   *)
(* number.                                                                 *)
(***************************************************************************)
C5_SentinelNotError ==
    (/\ lastResult # NoResult
     /\ NumberOrText(lastAmount)
     /\ ~Parseable(lastText))
        => lastResult = Normal("₹" \o "NaN")

C5_Witness ==
    /\ lastAmount = String(<<"a", "b", "c">>)
    /\ ~Parseable(lastText)
    /\ lastResult = Normal("₹" \o "NaN")

=============================================================================
